---- MODULE Spec2Model ----
(***************************************************************************)
(* The VGA text terminal of the SAGCO kernel (src/kernel/kernel.c) and its *)
(* boot entry point kernel_main.                                           *)
(*                                                                         *)
(* The terminal's primitives (terminal_initialize, terminal_setcolor,      *)
(* terminal_putentryat, terminal_putchar) are operators on a record of the *)
(* driver's statics; each is one atomic step.  terminal_write is the loop  *)
(* of kernel.c:94-97, one terminal_putchar per step, so the states between *)
(* two terminal_putchar calls of one write are states of the model.        *)
(*                                                                         *)
(*   Spec      an arbitrary caller issuing at most MaxOps calls            *)
(*   SpecBoot  kernel_main, run from the cold machine                      *)
(*   SpecEnc   terminal_setcolor of every colour pair, then a character    *)
(*   SpecRing  up to MaxOps characters after long runs of characters       *)
(***************************************************************************)
EXTENDS Integers, Sequences, FiniteSets, TLC

VARIABLES
    terminal_row,       \* static size_t terminal_row
    terminal_column,    \* static size_t terminal_column
    terminal_color,     \* static uint8_t terminal_color
    terminal_buffer,    \* the cells at terminal_buffer[0 .. WIDTH*HEIGHT-1]
    pc,                 \* "idle" (in the caller), "write", "L105", "halt"
    frame,              \* terminal_write's data, size, i and where it returns
    ip,                 \* kernel_main: index of the next call of the banner
    stores,             \* history: <<x, y, index>> of the stores of the last primitive
    ev,                 \* history: the last primitive run, its argument, a count
    hist,               \* history: the calls the caller has made, in order
    pre,                \* history: the statics and cells when the last call began
    nops                \* history: number of calls the caller has made

vars == <<terminal_row, terminal_column, terminal_color, terminal_buffer,
          pc, frame, ip, stores, ev, hist, pre, nops>>

(***************************************************************************)
(* Program constants                                                       *)
(***************************************************************************)
VGA_WIDTH == 80
VGA_HEIGHT == 25

VGA_BLACK == 0
VGA_BLUE == 1
VGA_GREEN == 2
VGA_CYAN == 3
VGA_RED == 4
VGA_MAGENTA == 5
VGA_BROWN == 6
VGA_LIGHT_GREY == 7
VGA_DARK_GREY == 8
VGA_LIGHT_BLUE == 9
VGA_LIGHT_GREEN == 10
VGA_LIGHT_CYAN == 11
VGA_LIGHT_RED == 12
VGA_LIGHT_MAGENTA == 13
VGA_YELLOW == 14
VGA_WHITE == 15

\* '\n', ' ' and the string terminator '\0'
NEWLINE == 10
SPACE == 32
NUL == 0

\* Number of cells of the grid
VGA_CELLS == VGA_WIDTH * VGA_HEIGHT

(***************************************************************************)
(* Integer arithmetic of the C code                                        *)
(***************************************************************************)
\* a | b on non-negative integers
RECURSIVE BitOr(_, _)
BitOr(a, b) ==
    IF a = 0 THEN b
    ELSE IF b = 0 THEN a
    ELSE (IF a % 2 = 1 \/ b % 2 = 1 THEN 1 ELSE 0) + 2 * BitOr(a \div 2, b \div 2)

\* a << n
ShiftLeft(a, n) == a * (2 ^ n)

\* Conversions to unsigned char / uint8_t and to uint16_t.  char is signed on
\* the i386 target, so a char holds -128 .. 127.
ToU8(v) == v % 256
ToU16(v) == v % 65536

\* Mutant: the background is shifted by 3 bits
vga_entry_color_shift3(fg, bg) == ToU8(BitOr(fg, ShiftLeft(bg, 3)))

\* static inline uint8_t vga_entry_color(enum vga_color fg, enum vga_color bg)
vga_entry_color(fg, bg) == ToU8(BitOr(fg, ShiftLeft(bg, 4)))

\* static inline uint16_t vga_entry(unsigned char uc, uint8_t color)
vga_entry(c, color) ==
    LET uc == ToU8(c)
        co == ToU8(color)
    IN  ToU16(BitOr(ToU16(uc), ToU16(ShiftLeft(co, 8))))

\* size_t strlen(const char* str): str is the memory at str, str[len] is the
\* byte at offset len
RECURSIVE strlen_loop(_, _)
strlen_loop(str, len) ==
    IF str[len + 1] # NUL THEN strlen_loop(str, len + 1) ELSE len

\* Mutant: the terminator is counted
strlen_plus1(str) == strlen_loop(str, 0) + 1

strlen(str) == strlen_loop(str, 0)

(***************************************************************************)
(* The terminal: st = [row, column, color, buffer, stores]                 *)
(***************************************************************************)
\* terminal_buffer[index] = val.  The grid is the VGA_CELLS cells at
\* VGA_MEMORY; a store past it lands in memory that is not part of the grid.
buffer_store(st, x, y, index, val) ==
    [st EXCEPT !.buffer = IF index \in DOMAIN @ THEN [@ EXCEPT ![index] = val] ELSE @,
               !.stores = Append(@, <<x, y, index>>)]

\* Mutant: the outer loop stops one row early (y < VGA_HEIGHT - 1)
initialize_loop_short ==
    [n \in 1 .. (VGA_HEIGHT - 1) * VGA_WIDTH |->
        LET y == (n - 1) \div VGA_WIDTH
            x == (n - 1) % VGA_WIDTH
            index == y * VGA_WIDTH + x
        IN  <<x, y, index>>]

\* The clear loops of terminal_initialize, iteration by iteration: the n-th
\* iteration (n from 1) of
\*   for (y = 0; y < VGA_HEIGHT; y++) for (x = 0; x < VGA_WIDTH; x++)
\* has y = (n-1) / VGA_WIDTH and x = (n-1) % VGA_WIDTH and stores at index
initialize_loop ==
    [n \in 1 .. VGA_HEIGHT * VGA_WIDTH |->
        LET y == (n - 1) \div VGA_WIDTH
            x == (n - 1) % VGA_WIDTH
            index == y * VGA_WIDTH + x
        IN  <<x, y, index>>]

\* The indices the clear loops store at
initialize_written == {initialize_loop[n][3] : n \in DOMAIN initialize_loop}

\* Mutant: a colour set earlier is kept and used for the blank cells
terminal_initialize_keep_color(st) ==
    LET color   == IF st.color = 0 THEN vga_entry_color(VGA_LIGHT_CYAN, VGA_BLACK)
                   ELSE st.color
        blank   == vga_entry(SPACE, color)
        written == initialize_written
    IN  [row    |-> 0,
         column |-> 0,
         color  |-> color,
         buffer |-> [k \in DOMAIN st.buffer |->
                        IF k \in written THEN blank ELSE st.buffer[k]],
         stores |-> st.stores \o initialize_loop]

\* void terminal_initialize(void)
terminal_initialize(st) ==
    LET color   == vga_entry_color(VGA_LIGHT_CYAN, VGA_BLACK)
        blank   == vga_entry(SPACE, color)
        written == initialize_written
    IN  [row    |-> 0,
         column |-> 0,
         color  |-> color,
         buffer |-> [k \in DOMAIN st.buffer |->
                        IF k \in written THEN blank ELSE st.buffer[k]],
         stores |-> st.stores \o initialize_loop]

\* Mutant: the colour is not stored
terminal_setcolor_ignored(st, color) == [st EXCEPT !.stores = <<>>]

terminal_setcolor(st, color) == [st EXCEPT !.color = ToU8(color)]

\* Mutant: the cell is stored with attribute 0 instead of color
terminal_putentryat_nocolor(st, c, color, x, y) ==
    LET index == y * VGA_WIDTH + x
    IN  buffer_store(st, x, y, index, vga_entry(c, 0))

\* Mutant: the index is computed with x and y exchanged
terminal_putentryat_swapped(st, c, color, x, y) ==
    LET index == x * VGA_WIDTH + y
    IN  buffer_store(st, x, y, index, vga_entry(c, color))

terminal_putentryat(st, c, color, x, y) ==
    LET index == y * VGA_WIDTH + x
    IN  buffer_store(st, x, y, index, vga_entry(c, color))

\* Mutant: the row is advanced and never taken back to 0
next_row_nowrap(row) == row + 1

\* if (++terminal_row == VGA_HEIGHT) terminal_row = 0;
next_row(row) == IF row + 1 = VGA_HEIGHT THEN 0 ELSE row + 1

\* Mutant: the column is advanced and never taken back to 0
terminal_putchar_nocolwrap(st, c) ==
    IF c = NEWLINE
    THEN [st EXCEPT !.column = 0, !.row = next_row(@)]
    ELSE LET s1 == terminal_putentryat(st, c, st.color, st.column, st.row)
         IN  [s1 EXCEPT !.column = @ + 1]

\* Mutant: at the last column the column goes back to 0 on the same row
terminal_putchar_samerow(st, c) ==
    IF c = NEWLINE
    THEN [st EXCEPT !.column = 0, !.row = next_row(@)]
    ELSE LET s1 == terminal_putentryat(st, c, st.color, st.column, st.row)
         IN  IF s1.column + 1 = VGA_WIDTH
             THEN [s1 EXCEPT !.column = 0]
             ELSE [s1 EXCEPT !.column = @ + 1]

\* Mutant: a newline advances the row and leaves the column
terminal_putchar_nocr(st, c) ==
    IF c = NEWLINE
    THEN [st EXCEPT !.row = next_row(@)]
    ELSE LET s1 == terminal_putentryat(st, c, st.color, st.column, st.row)
         IN  IF s1.column + 1 = VGA_WIDTH
             THEN [s1 EXCEPT !.column = 0, !.row = next_row(@)]
             ELSE [s1 EXCEPT !.column = @ + 1]

\* Mutant: the cell at the cursor is read first, and a character it already
\* holds with the current colour is not put again
terminal_putchar_readback(st, c) ==
    IF c = NEWLINE
    THEN [st EXCEPT !.column = 0, !.row = next_row(@)]
    ELSE IF st.buffer[st.row * VGA_WIDTH + st.column] = vga_entry(c, st.color)
    THEN st
    ELSE LET s1 == terminal_putentryat(st, c, st.color, st.column, st.row)
         IN  IF s1.column + 1 = VGA_WIDTH
             THEN [s1 EXCEPT !.column = 0, !.row = next_row(@)]
             ELSE [s1 EXCEPT !.column = @ + 1]

\* Mutant: the grid is cleared when the row wraps to 0
terminal_putchar_clear_on_wrap(st, c) ==
    LET clear(s) == IF s.row + 1 = VGA_HEIGHT
                    THEN [s EXCEPT !.buffer = [k \in DOMAIN @ |-> vga_entry(SPACE, s.color)]]
                    ELSE s
    IN  IF c = NEWLINE
        THEN [clear(st) EXCEPT !.column = 0, !.row = next_row(@)]
        ELSE LET s1 == terminal_putentryat(st, c, st.color, st.column, st.row)
             IN  IF s1.column + 1 = VGA_WIDTH
                 THEN [clear(s1) EXCEPT !.column = 0, !.row = next_row(@)]
                 ELSE [s1 EXCEPT !.column = @ + 1]

\* Mutant: when the row wraps to 0 the grid is scrolled up by one row and
\* the last row is blanked
scroll(st) ==
    [st EXCEPT !.buffer =
        [k \in DOMAIN @ |->
            IF k + VGA_WIDTH \in DOMAIN @ THEN @[k + VGA_WIDTH]
            ELSE vga_entry(SPACE, st.color)]]

terminal_putchar_scroll(st, c) ==
    LET wrap(s) == IF s.row + 1 = VGA_HEIGHT THEN scroll(s) ELSE s
    IN  IF c = NEWLINE
        THEN [wrap(st) EXCEPT !.column = 0, !.row = next_row(@)]
        ELSE LET s1 == terminal_putentryat(st, c, st.color, st.column, st.row)
             IN  IF s1.column + 1 = VGA_WIDTH
                 THEN [wrap(s1) EXCEPT !.column = 0, !.row = next_row(@)]
                 ELSE [s1 EXCEPT !.column = @ + 1]

terminal_putchar(st, c) ==
    IF c = NEWLINE
    THEN [st EXCEPT !.column = 0, !.row = next_row(@)]
    ELSE LET s1 == terminal_putentryat(st, c, st.color, st.column, st.row)
         IN  IF s1.column + 1 = VGA_WIDTH
             THEN [s1 EXCEPT !.column = 0, !.row = next_row(@)]
             ELSE [s1 EXCEPT !.column = @ + 1]

(***************************************************************************)
(* State of the model                                                      *)
(***************************************************************************)
\* The statics and the grid as a record; a primitive starts with no stores
State ==
    [row |-> terminal_row, column |-> terminal_column, color |-> terminal_color,
     buffer |-> terminal_buffer, stores |-> <<>>]

Set(st) ==
    /\ terminal_row' = st.row
    /\ terminal_column' = st.column
    /\ terminal_color' = st.color
    /\ terminal_buffer' = st.buffer
    /\ stores' = st.stores

\* The statics, the grid and the stores are those of st
Is(st) ==
    /\ terminal_row = st.row
    /\ terminal_column = st.column
    /\ terminal_color = st.color
    /\ terminal_buffer = st.buffer
    /\ stores = st.stores

Same == UNCHANGED <<terminal_row, terminal_column, terminal_color, terminal_buffer, stores>>

Snapshot(st) == [row |-> st.row, column |-> st.column, color |-> st.color, buffer |-> st.buffer]

\* The machine before terminal_initialize: the statics are zero (.bss) and
\* the cells hold what the firmware left, g in every cell
Cold(g) ==
    [row |-> 0, column |-> 0, color |-> 0,
     buffer |-> [k \in 0 .. VGA_CELLS - 1 |-> g], stores |-> <<>>]

\* A call of the caller, as the caller history holds it
Call(fn, data, size, c) == [fn |-> fn, data |-> data, size |-> size, c |-> c]
Initialize == Call("initialize", <<>>, 0, 0)
SetColor(color) == Call("setcolor", <<>>, 0, color)
PutChar(c) == Call("putchar", <<>>, 0, c)
Write(data, size) == Call("write", data, size, 0)
WriteString(data) == Call("writestring", data, 0, 0)
WriteLine(data) == Call("writeline", data, 0, 0)

NoFrame == [data |-> <<>>, size |-> 0, i |-> 0, ret |-> "idle"]

\* History of the primitive just run
Prim(fn, c) == ev' = [fn |-> fn, c |-> c, n |-> ev.n + 1]

\* The caller makes a call: history only
Begin(call) ==
    /\ pc = "idle"
    /\ hist' = Append(hist, call)
    /\ pre' = Snapshot(State)
    /\ nops' = nops + 1

(***************************************************************************)
(* The driver's functions as steps                                         *)
(***************************************************************************)
do_initialize ==
    /\ Set(terminal_initialize(State))
    /\ Prim("initialize", 0)
    /\ UNCHANGED <<pc, frame>>

do_setcolor(color) ==
    /\ Set(terminal_setcolor(State, color))
    /\ Prim("setcolor", color)
    /\ UNCHANGED <<pc, frame>>

do_putchar(c) ==
    /\ Set(terminal_putchar(State, c))
    /\ Prim("putchar", c)
    /\ UNCHANGED <<pc, frame>>

\* void terminal_write(const char* data, size_t size): entry, i = 0; ret is
\* where the function returns to
terminal_write(data, size, ret) ==
    /\ frame' = [data |-> data, size |-> size, i |-> 0, ret |-> ret]
    /\ pc' = "write"
    /\ Same
    /\ UNCHANGED ev

\* Mutant: the loop passes the bytes from the last to the first
terminal_write_loop_reversed ==
    /\ pc = "write"
    /\ IF frame.i < frame.size
       THEN /\ Set(terminal_putchar(State, frame.data[frame.size - frame.i]))
            /\ Prim("putchar", frame.data[frame.size - frame.i])
            /\ frame' = [frame EXCEPT !.i = @ + 1]
            /\ pc' = pc
       ELSE /\ pc' = frame.ret
            /\ Same
            /\ UNCHANGED <<ev, frame>>

\* for (i = 0; i < size; i++) terminal_putchar(data[i]);  one test of the
\* loop condition: one more iteration, or the return
terminal_write_loop ==
    /\ pc = "write"
    /\ IF frame.i < frame.size
       THEN /\ Set(terminal_putchar(State, frame.data[frame.i + 1]))
            /\ Prim("putchar", frame.data[frame.i + 1])
            /\ frame' = [frame EXCEPT !.i = @ + 1]
            /\ pc' = pc
       ELSE /\ pc' = frame.ret
            /\ Same
            /\ UNCHANGED <<ev, frame>>

\* void terminal_writestring(const char* data)
terminal_writestring(data, ret) == terminal_write(data, strlen(data), ret)

\* Mutant: no newline is put after a line of VGA_WIDTH characters
terminal_writeline_merged(data) ==
    terminal_writestring(data, IF strlen(data) = VGA_WIDTH THEN "idle" ELSE "L105")

\* Mutant: the newline of line 105 is left out
terminal_writeline_nonl(data) == terminal_writestring(data, "idle")

\* void terminal_writeline(const char* data): line 104, then line 105
terminal_writeline(data) == terminal_writestring(data, "L105")

terminal_writeline_L105 ==
    /\ pc = "L105"
    /\ Set(terminal_putchar(State, NEWLINE))
    /\ Prim("putchar", NEWLINE)
    /\ pc' = "idle"
    /\ UNCHANGED frame

(***************************************************************************)
(* Calls by a caller                                                       *)
(***************************************************************************)
CallInitialize == Begin(Initialize) /\ do_initialize

CallSetColor(color) == Begin(SetColor(color)) /\ do_setcolor(color)

CallPutChar(c) == Begin(PutChar(c)) /\ do_putchar(c)

CallWrite(data, size) ==
    Begin(Write(data, size)) /\ terminal_write(data, size, "idle")

CallWriteString(data) ==
    Begin(WriteString(data)) /\ terminal_writestring(data, "idle")

CallWriteLine(data) ==
    Begin(WriteLine(data)) /\ terminal_writeline(data)

(***************************************************************************)
(* Spec: an arbitrary caller                                               *)
(***************************************************************************)
\* Calls a behaviour makes after its initial state
MaxOps == 2

Rep(c, n) == [k \in 1 .. n |-> c]

\* terminal_putchar applied to bytes[lo], ..., bytes[hi] in that order (the
\* range is halved, and st is read before anything else, so that the
\* intermediate states are computed in order and the evaluation stays shallow)
RECURSIVE PutRange(_, _, _, _)
PutRange(st, bytes, lo, hi) ==
    IF st.row \notin Int \/ lo > hi THEN st
    ELSE IF lo = hi THEN terminal_putchar([st EXCEPT !.stores = <<>>], bytes[lo])
    ELSE LET mid == (lo + hi) \div 2
         IN  PutRange(PutRange(st, bytes, lo, mid), bytes, mid + 1, hi)

\* n applications of terminal_putchar, to bytes[1], ..., bytes[n] in order
PutChars(st, bytes, n) == PutRange(st, bytes, 1, n)

\* Inputs: colours, characters, (data, size) pairs for terminal_write and
\* NUL-terminated strings.  -56 is the char of byte 200.
TestColors == {vga_entry_color(VGA_WHITE, VGA_RED)}
TestChars == {65, NEWLINE}
StrLong == Rep(65, VGA_WIDTH) \o <<NUL>>
TestWrites ==
    { <<(<<65, 66, NUL>>), 2>>, <<(<<65, 66, NUL>>), 1>>,
      <<(<<-56, NEWLINE, 66, NUL>>), 3>>, <<StrLong, VGA_WIDTH - 1>> }
TestStrings == { <<NUL>>, <<65, NUL, 66, NUL>> }
TestLines == { <<65, 66, NUL>>, <<67, NUL>>, <<NUL>>, StrLong }

\* What the cold machine's cells hold: zeros, or grey-on-black blanks
Garbage == {0, 1824}

\* The initial states: terminal_initialize() on the cold machine, then one
\* terminal_putchar per byte of a seed.  The seeds leave the cursor at
\* column 0 of row 0, at the last column of row 0, at column 0 of the last
\* row, and at the last column of the last row with a letter B on row 0
Seeds ==
    { <<>>,
      Rep(65, VGA_WIDTH - 1),
      Rep(NEWLINE, VGA_HEIGHT - 1),
      <<66>> \o Rep(NEWLINE, VGA_HEIGHT - 1) \o Rep(65, VGA_WIDTH - 1) }

InitAfter(g, bytes) ==
    LET n  == Len(bytes)
        s0 == terminal_initialize(Cold(g))
        st == PutChars(s0, bytes, n)
    IN  /\ Is(st)
        /\ pc = "idle"
        /\ frame = NoFrame
        /\ ip = 0
        /\ ev = IF n = 0 THEN [fn |-> "initialize", c |-> 0, n |-> 1]
                ELSE [fn |-> "putchar", c |-> bytes[n], n |-> n + 1]
        /\ hist = <<Initialize>> \o [k \in 1 .. n |-> PutChar(bytes[k])]
        /\ pre = IF n = 0 THEN Snapshot(Cold(g))
                 ELSE Snapshot(PutChars(s0, bytes, n - 1))
        /\ nops = 0

Init == \E g \in Garbage, bytes \in Seeds : InitAfter(g, bytes)

Caller ==
    /\ nops < MaxOps
    /\ ip' = ip
    /\ \/ CallInitialize
       \/ \E color \in TestColors : CallSetColor(color)
       \/ \E c \in TestChars : CallPutChar(c)
       \/ \E w \in TestWrites : CallWrite(w[1], w[2])
       \/ \E data \in TestStrings : CallWriteString(data)
       \/ \E data \in TestLines : CallWriteLine(data)

WriteLoop == terminal_write_loop /\ UNCHANGED <<ip, hist, pre, nops>>

WriteLineNewline == terminal_writeline_L105 /\ UNCHANGED <<ip, hist, pre, nops>>

Next == Caller \/ WriteLoop \/ WriteLineNewline

Spec == Init /\ [][Next]_vars

(***************************************************************************)
(* kernel_main and the banner                                              *)
(***************************************************************************)
\* A string literal: its characters and the terminating NUL
Str(s) == s \o <<NUL>>

print_header ==
    <<
      \* terminal_setcolor(vga_entry_color(VGA_YELLOW, VGA_BLACK));
      SetColor(vga_entry_color(VGA_YELLOW, VGA_BLACK)),
      \* terminal_writeline("===...==="): 79 times '='
      WriteLine(Str(Rep(61, 79))),
      \* terminal_setcolor(vga_entry_color(VGA_LIGHT_CYAN, VGA_BLACK));
      SetColor(vga_entry_color(VGA_LIGHT_CYAN, VGA_BLACK)),
      \* terminal_writeline("                           SAGCO LIVE v0.1.0");
      WriteLine(Str(<<32, 32, 32, 32, 32, 32, 32, 32, 32, 32, 32, 32, 32, 32, 32, 32,
            32, 32, 32, 32, 32, 32, 32, 32, 32, 32, 32, 83, 65, 71, 67, 79,
            32, 76, 73, 86, 69, 32, 118, 48, 46, 49, 46, 48>>)),
      \* terminal_writeline("              Sovereign AI-Governed Compute Organism");
      WriteLine(Str(<<32, 32, 32, 32, 32, 32, 32, 32, 32, 32, 32, 32, 32, 32, 83, 111,
            118, 101, 114, 101, 105, 103, 110, 32, 65, 73, 45, 71, 111, 118,
            101, 114, 110, 101, 100, 32, 67, 111, 109, 112, 117, 116, 101,
            32, 79, 114, 103, 97, 110, 105, 115, 109>>)),
      \* terminal_setcolor(vga_entry_color(VGA_YELLOW, VGA_BLACK));
      SetColor(vga_entry_color(VGA_YELLOW, VGA_BLACK)),
      \* terminal_writeline("===...==="): 79 times '='
      WriteLine(Str(Rep(61, 79))),
      \* terminal_putchar('\n');
      PutChar(NEWLINE)
    >>

print_info ==
    <<
      \* terminal_setcolor(vga_entry_color(VGA_WHITE, VGA_BLACK));
      SetColor(vga_entry_color(VGA_WHITE, VGA_BLACK)),
      \* terminal_writeline("  Status: KERNEL BOOTED");
      WriteLine(Str(<<32, 32, 83, 116, 97, 116, 117, 115, 58, 32, 75, 69, 82, 78, 69,
            76, 32, 66, 79, 79, 84, 69, 68>>)),
      \* terminal_writeline("  Owner:  Strategickhaos DAO LLC");
      WriteLine(Str(<<32, 32, 79, 119, 110, 101, 114, 58, 32, 32, 83, 116, 114, 97,
            116, 101, 103, 105, 99, 107, 104, 97, 111, 115, 32, 68, 65, 79,
            32, 76, 76, 67>>)),
      \* terminal_writeline("  Motto:  Ratio Ex Nihilo");
      WriteLine(Str(<<32, 32, 77, 111, 116, 116, 111, 58, 32, 32, 82, 97, 116, 105,
            111, 32, 69, 120, 32, 78, 105, 104, 105, 108, 111>>)),
      \* terminal_putchar('\n');
      PutChar(NEWLINE)
    >>

print_status ==
    <<
      \* terminal_setcolor(vga_entry_color(VGA_LIGHT_GREEN, VGA_BLACK));
      SetColor(vga_entry_color(VGA_LIGHT_GREEN, VGA_BLACK)),
      \* terminal_writeline("  [*] VGA initialized");
      WriteLine(Str(<<32, 32, 91, 42, 93, 32, 86, 71, 65, 32, 105, 110, 105, 116, 105,
            97, 108, 105, 122, 101, 100>>)),
      \* terminal_writeline("  [*] Interrupts disabled");
      WriteLine(Str(<<32, 32, 91, 42, 93, 32, 73, 110, 116, 101, 114, 114, 117, 112,
            116, 115, 32, 100, 105, 115, 97, 98, 108, 101, 100>>)),
      \* terminal_writeline("  [*] Awaiting FlameLang integration...");
      WriteLine(Str(<<32, 32, 91, 42, 93, 32, 65, 119, 97, 105, 116, 105, 110, 103, 32,
            70, 108, 97, 109, 101, 76, 97, 110, 103, 32, 105, 110, 116, 101,
            103, 114, 97, 116, 105, 111, 110, 46, 46, 46>>)),
      \* terminal_putchar('\n');
      PutChar(NEWLINE)
    >>

print_footer ==
    <<
      \* terminal_setcolor(vga_entry_color(VGA_YELLOW, VGA_BLACK));
      SetColor(vga_entry_color(VGA_YELLOW, VGA_BLACK)),
      \* terminal_writeline("===...==="): 79 times '='
      WriteLine(Str(Rep(61, 79))),
      \* terminal_setcolor(vga_entry_color(VGA_LIGHT_MAGENTA, VGA_BLACK));
      SetColor(vga_entry_color(VGA_LIGHT_MAGENTA, VGA_BLACK)),
      \* terminal_writeline("  Legion of Minds: Claude + GPT + Grok = Convergence");
      WriteLine(Str(<<32, 32, 76, 101, 103, 105, 111, 110, 32, 111, 102, 32, 77, 105,
            110, 100, 115, 58, 32, 67, 108, 97, 117, 100, 101, 32, 43, 32,
            71, 80, 84, 32, 43, 32, 71, 114, 111, 107, 32, 61, 32, 67, 111,
            110, 118, 101, 114, 103, 101, 110, 99, 101>>)),
      \* terminal_setcolor(vga_entry_color(VGA_YELLOW, VGA_BLACK));
      SetColor(vga_entry_color(VGA_YELLOW, VGA_BLACK)),
      \* terminal_writeline("===...==="): 79 times '='
      WriteLine(Str(Rep(61, 79)))
    >>

\* Mutant: kernel_main first prints a line of VGA_WIDTH characters
kernel_main_wide_line ==
    <<Initialize, WriteLine(Str(Rep(61, VGA_WIDTH)))>>
        \o print_header \o print_info \o print_status \o print_footer

\* Mutant: kernel_main prints nothing
kernel_main_only_init == <<Initialize>>

\* Mutant: the banner header is printed before the terminal is initialised
kernel_main_late_init ==
    print_header \o <<Initialize>> \o print_info \o print_status \o print_footer

\* The calls of kernel_main before the halt loop, in order
kernel_main == <<Initialize>> \o print_header \o print_info \o print_status \o print_footer

\* The machine at the entry of kernel_main
InitBoot ==
    \E g \in Garbage :
        /\ Is(Cold(g))
        /\ pc = "idle"
        /\ frame = NoFrame
        /\ ip = 1
        /\ ev = [fn |-> "none", c |-> 0, n |-> 0]
        /\ hist = <<>>
        /\ pre = Snapshot(Cold(g))
        /\ nops = 0

\* kernel_main makes its next call
KernelCall ==
    /\ ip <= Len(kernel_main)
    /\ ip' = ip + 1
    /\ LET k == kernel_main[ip]
       IN  \/ k.fn = "initialize" /\ CallInitialize
           \/ k.fn = "setcolor" /\ CallSetColor(k.c)
           \/ k.fn = "putchar" /\ CallPutChar(k.c)
           \/ k.fn = "writeline" /\ CallWriteLine(k.data)

\* kernel_main enters while(1)
KernelHalt ==
    /\ pc = "idle"
    /\ ip = Len(kernel_main) + 1
    /\ pc' = "halt"
    /\ Same
    /\ UNCHANGED <<frame, ip, ev, hist, pre, nops>>

\* __asm__ volatile ("hlt"), again and again
Hlt ==
    /\ pc = "halt"
    /\ UNCHANGED vars

NextBoot == KernelCall \/ WriteLoop \/ WriteLineNewline \/ KernelHalt \/ Hlt

\* One thread of control that always runs
SpecBoot == InitBoot /\ [][NextBoot]_vars /\ WF_vars(NextBoot)

(***************************************************************************)
(* The cell encoding, applied by the driver to every colour pair and byte  *)
(***************************************************************************)
\* The values of enum vga_color, and sixteen values of char: as unsigned
\* char they are 0x80, 0x91, ..., 0xF7, 0x08, 0x19, ..., 0x7F
Colors == VGA_BLACK .. VGA_WHITE
Chars == {17 * k - 128 : k \in 0 .. 15}

\* The call terminal_setcolor(vga_entry_color(fg, bg)); the record keeps
\* fg and bg
SetColorOf(fg, bg) == Call("setcolor", <<fg, bg>>, 0, vga_entry_color(fg, bg))

\* The terminal after terminal_initialize
InitEnc == \E g \in Garbage : InitAfter(g, <<>>)

\* terminal_setcolor(vga_entry_color(fg, bg)) for any pair of colours
EncSetColor ==
    /\ ip = 0
    /\ ip' = 1
    /\ \E fg \in Colors, bg \in Colors :
          Begin(SetColorOf(fg, bg)) /\ do_setcolor(vga_entry_color(fg, bg))

\* then terminal_putchar(c) for one of the chars: terminal_putentryat
\* applies vga_entry to c and the colour
EncPutChar ==
    /\ ip = 1
    /\ ip' = 2
    /\ \E c \in Chars : CallPutChar(c)

NextEnc == EncSetColor \/ EncPutChar

SpecEnc == InitEnc /\ [][NextEnc]_vars

(***************************************************************************)
(* Long runs of terminal_putchar after terminal_initialize                 *)
(***************************************************************************)
\* n letters, A to Z again and again
Letters(n) == [k \in 1 .. n |-> 65 + ((k - 1) % 26)]

\* The numbers of characters already put, and the characters put next
RingLengths ==
    {0, 1, VGA_WIDTH - 1, VGA_WIDTH,
     VGA_CELLS - 2, VGA_CELLS - 1, VGA_CELLS, VGA_CELLS + 1}
RingChars == {97, 98, 99, 100}

\* terminal_initialize, then terminal_putchar of n letters
InitRing == \E g \in Garbage, n \in RingLengths : InitAfter(g, Letters(n))

\* One more terminal_putchar of a character
RingPutChar ==
    /\ nops < MaxOps
    /\ ip' = ip
    /\ \E c \in RingChars : CallPutChar(c)

NextRing == RingPutChar

SpecRing == InitRing /\ [][NextRing]_vars

(***************************************************************************)
(* Properties                                                              *)
(***************************************************************************)
\* The last call the caller made
Last == hist[Len(hist)]

\* A cell's character byte and attribute byte; the index of cell (x, y)
CellChar(v) == v % 256
CellAttr(v) == v \div 256
CellAt(buffer, x, y) == buffer[y * VGA_WIDTH + x]

\* The step runs terminal_putchar
PutcharStep == ev'.n = ev.n + 1 /\ ev'.fn = "putchar"

\* terminal_write has passed all its bytes to terminal_putchar
WriteDone == pc = "write" /\ frame.i = frame.size

\* The bytes given to terminal_write are printable (so none is a newline)
Printable(data, size) == \A k \in 1 .. size : data[k] \in 32 .. 126

\* C1: between any two operations, and after every terminal_putchar, the
\* cursor is on the grid: 0 <= terminal_row < VGA_HEIGHT and
\* 0 <= terminal_column < VGA_WIDTH.
C1_CursorInRange ==
    /\ terminal_row \in 0 .. VGA_HEIGHT - 1
    /\ terminal_column \in 0 .. VGA_WIDTH - 1

\* A character was written into the last cell of the grid and the cursor
\* came back to (0, 0)
C1_Witness ==
    /\ pc = "idle"
    /\ Last = PutChar(65)
    /\ pre.row = VGA_HEIGHT - 1
    /\ pre.column = VGA_WIDTH - 1
    /\ terminal_row = 0
    /\ terminal_column = 0

\* C2: every store of terminal_putchar (through terminal_putentryat) and of
\* the clear loop of terminal_initialize has x < VGA_WIDTH, y < VGA_HEIGHT
\* and an index y * VGA_WIDTH + x below VGA_WIDTH * VGA_HEIGHT.
C2_StoresInRange ==
    \A k \in DOMAIN stores :
        LET x == stores[k][1]
            y == stores[k][2]
            index == stores[k][3]
        IN  /\ x \in 0 .. VGA_WIDTH - 1
            /\ y \in 0 .. VGA_HEIGHT - 1
            /\ index = y * VGA_WIDTH + x
            /\ index \in 0 .. VGA_WIDTH * VGA_HEIGHT - 1

\* terminal_putchar has stored into the last cell of the grid
C2_Witness ==
    /\ ev.fn = "putchar"
    /\ stores = << <<VGA_WIDTH - 1, VGA_HEIGHT - 1, VGA_WIDTH * VGA_HEIGHT - 1>> >>

\* What C3 says of a terminal_write of L printable bytes begun at column 0,
\* once all L bytes are written
C3_Effect ==
    LET L == frame.size
        r == pre.row
    IN  /\ terminal_column = L
        /\ terminal_row = r
        /\ \A x \in 0 .. L - 1 :
              /\ CellChar(CellAt(terminal_buffer, x, r)) = ToU8(frame.data[x + 1])
              /\ CellAttr(CellAt(terminal_buffer, x, r)) = terminal_color
        /\ \A x \in L .. VGA_WIDTH - 1 :
              CellAt(terminal_buffer, x, r) = CellAt(pre.buffer, x, r)

\* C3 as stated: for L <= VGA_WIDTH printable bytes written from column 0 of
\* row r, the cursor ends at column L of row r, row r holds the bytes at
\* columns [0, L) with the current attribute and is unchanged at [L, WIDTH).
C3_Original ==
    (WriteDone /\ pre.column = 0 /\ frame.size <= VGA_WIDTH
        /\ Printable(frame.data, frame.size))
    => C3_Effect

\* C3, amended: the same for L < VGA_WIDTH.
C3_WriteShort ==
    (WriteDone /\ pre.column = 0 /\ frame.size < VGA_WIDTH
        /\ Printable(frame.data, frame.size))
    => C3_Effect

\* VGA_WIDTH - 1 letters were written from column 0 of the last row
C3_Witness ==
    /\ WriteDone
    /\ pre.column = 0
    /\ pre.row = VGA_HEIGHT - 1
    /\ frame.size = VGA_WIDTH - 1
    /\ Printable(frame.data, frame.size)

\* C4: VGA_WIDTH newline-free bytes written by terminal_write from column 0
\* of row r leave the cursor at column 0 of row (r + 1) mod VGA_HEIGHT, and
\* row r holds exactly these bytes.
C4_WriteFullRow ==
    (WriteDone /\ pre.column = 0 /\ frame.size = VGA_WIDTH
        /\ \A k \in 1 .. frame.size : frame.data[k] # NEWLINE)
    => /\ terminal_column = 0
       /\ terminal_row = (pre.row + 1) % VGA_HEIGHT
       /\ \A x \in 0 .. VGA_WIDTH - 1 :
             CellChar(CellAt(terminal_buffer, x, pre.row)) = ToU8(frame.data[x + 1])

\* A full row was written on the last row of the grid
C4_Witness ==
    /\ WriteDone
    /\ pre.column = 0
    /\ pre.row = VGA_HEIGHT - 1
    /\ frame.size = VGA_WIDTH
    /\ terminal_row = 0

\* C5: terminal_putchar('\n') at cursor (c, r) sets the column to 0 and the
\* row to (r + 1) mod VGA_HEIGHT whatever c is, and stores no cell: the grid
\* and the colour attribute are unchanged.
C5_Newline ==
    [][(PutcharStep /\ ev'.c = NEWLINE)
        => /\ terminal_column' = 0
           /\ terminal_row' = (terminal_row + 1) % VGA_HEIGHT
           /\ terminal_buffer' = terminal_buffer
           /\ terminal_color' = terminal_color
           /\ stores' = <<>>]_vars

\* A newline was put with the cursor at the last column of the last row
C5_Witness ==
    /\ pc = "idle"
    /\ Last = PutChar(NEWLINE)
    /\ ev.fn = "putchar" /\ ev.c = NEWLINE
    /\ pre.column = VGA_WIDTH - 1
    /\ pre.row = VGA_HEIGHT - 1
    /\ terminal_column = 0
    /\ terminal_row = 0

\* The number of characters of the string at str before its first NUL
CharsBeforeNul(str) ==
    CHOOSE n \in 0 .. Len(str) - 1 :
        str[n + 1] = NUL /\ \A k \in 1 .. n : str[k] # NUL

\* pre as a terminal state
PreState == [pre EXCEPT !.stores = <<>>]

\* C6: terminal_writeline(s) ends in the state that terminal_write(s,
\* strlen(s)), i.e. one terminal_putchar per character of s in order,
\* followed by exactly one terminal_putchar('\n') produces from the same
\* starting state: cursor, colour and grid are equal.
C6_WriteLine ==
    (pc = "idle" /\ Last.fn = "writeline")
    => Snapshot(State)
         = Snapshot(terminal_putchar(
                        PutChars(PreState, Last.data, CharsBeforeNul(Last.data)),
                        NEWLINE))

\* terminal_writeline("AB") has returned after starting in the last cell of
\* the grid
C6_Witness ==
    /\ pc = "idle"
    /\ Last = WriteLine(<<65, 66, NUL>>)
    /\ pre.row = VGA_HEIGHT - 1
    /\ pre.column = VGA_WIDTH - 1
    /\ terminal_row = 1
    /\ terminal_column = 0

\* The cell of the last column of the last row
LastCell == (VGA_HEIGHT - 1) * VGA_WIDTH + (VGA_WIDTH - 1)

\* The step changes no cell of the grid other than cell k
ChangedOnlyAt(k) ==
    terminal_buffer' = [terminal_buffer EXCEPT ![k] = terminal_buffer'[k]]

\* C7: a terminal_putchar that takes the row from VGA_HEIGHT - 1 to 0
\* changes no cell when it puts a newline, and only the last cell of the
\* last row when it puts a character; rows 0 .. VGA_HEIGHT - 2 are neither
\* shifted nor cleared.  No step but terminal_initialize changes a cell
\* other than the cell at the cursor, which gets the character put.
C7_WrapKeepsRows ==
    [][/\ (PutcharStep /\ terminal_row = VGA_HEIGHT - 1 /\ terminal_row' = 0)
            => IF ev'.c = NEWLINE
               THEN terminal_buffer' = terminal_buffer
               ELSE ChangedOnlyAt(LastCell)
       /\ terminal_buffer' # terminal_buffer
            => \/ ev'.n = ev.n + 1 /\ ev'.fn = "initialize"
               \/ /\ PutcharStep
                  /\ ChangedOnlyAt(terminal_row * VGA_WIDTH + terminal_column)
                  /\ CellChar(CellAt(terminal_buffer', terminal_column, terminal_row))
                       = ToU8(ev'.c)]_vars

\* The row wrapped to 0 inside a terminal_write, by a character written into
\* the last cell, and the letter B of row 0 is still there
C7_Witness ==
    /\ pc = "write"
    /\ frame.i = 1
    /\ ev.fn = "putchar" /\ ev.c = 65
    /\ pre.row = VGA_HEIGHT - 1
    /\ pre.column = VGA_WIDTH - 1
    /\ terminal_row = 0
    /\ terminal_column = 0
    /\ CellChar(terminal_buffer[LastCell]) = 65
    /\ CellChar(terminal_buffer[0]) = 66

\* C8: after terminal_initialize and before any write the cursor is at row
\* 0, column 0, the attribute is 11 (light cyan on black) and every cell is
\* (space, 11).
C8_Initialized ==
    ev.fn = "initialize"
    => /\ terminal_row = 0
       /\ terminal_column = 0
       /\ terminal_color = 11
       /\ DOMAIN terminal_buffer = 0 .. VGA_WIDTH * VGA_HEIGHT - 1
       /\ \A k \in DOMAIN terminal_buffer :
             /\ CellChar(terminal_buffer[k]) = 32
             /\ CellAttr(terminal_buffer[k]) = 11

\* terminal_initialize was called with another colour set and the cursor
\* away from (0, 0)
C8_Witness ==
    /\ pc = "idle"
    /\ ev.fn = "initialize"
    /\ Last = Initialize
    /\ pre.color # 11
    /\ pre.row = VGA_HEIGHT - 1
    /\ pre.column = VGA_WIDTH - 1
    /\ CellChar(pre.buffer[0]) = 66

\* The last three calls are terminal_initialize, terminal_writeline("AB"),
\* terminal_writeline("C"), and the last has returned
AB_C_Written ==
    /\ pc = "idle"
    /\ Len(hist) >= 3
    /\ SubSeq(hist, Len(hist) - 2, Len(hist))
         = <<Initialize, WriteLine(<<65, 66, NUL>>), WriteLine(<<67, NUL>>)>>

\* C9: terminal_initialize, terminal_writeline("AB"), terminal_writeline("C")
\* give row 0 = "AB" then blanks, row 1 = "C" then blanks, every other row
\* blank, and the cursor at column 0 of row 2.
C9_EndToEnd ==
    AB_C_Written
    => /\ terminal_column = 0
       /\ terminal_row = 2
       /\ \A y \in 0 .. VGA_HEIGHT - 1 :
             \A x \in 0 .. VGA_WIDTH - 1 :
                /\ CellChar(CellAt(terminal_buffer, x, y))
                     = IF y = 0 /\ x = 0 THEN 65
                       ELSE IF y = 0 /\ x = 1 THEN 66
                       ELSE IF y = 1 /\ x = 0 THEN 67
                       ELSE 32
                /\ CellAttr(CellAt(terminal_buffer, x, y)) = 11

C9_Witness == AB_C_Written /\ terminal_row = 2

\* The statics and the grid do not change in the step
TerminalUnchanged ==
    UNCHANGED <<terminal_row, terminal_column, terminal_color, terminal_buffer>>

\* C10: kernel_main runs terminal_initialize before any cell write or colour
\* change, makes all the calls of the banner before it enters the halt loop,
\* does reach the halt loop and stays in it, and once it is there the
\* cursor, the colour and the grid never change.
C10_BootOrder ==
    /\ [][/\ (ev.n = 0 /\ ev'.n # 0) => ev'.fn = "initialize"
          /\ ~TerminalUnchanged => ev'.n = ev.n + 1
          /\ pc = "halt" => (pc' = "halt" /\ TerminalUnchanged)]_vars
    /\ [](hist # <<>> => hist[1] = Initialize)
    /\ [](pc = "halt" => (hist = kernel_main /\ Len(hist) = 25 /\ Last.fn = "writeline"))
    /\ <>[](pc = "halt")

\* The halt loop is reached with the last separator line on row 15
C10_Witness ==
    /\ pc = "halt"
    /\ terminal_row = 16
    /\ terminal_column = 0
    /\ CellChar(CellAt(terminal_buffer, 78, 15)) = 61

\* The lines of the four print functions, in source order, the row each one is
\* expected on and the attribute expected in its cells
BannerLines ==
    SelectSeq(print_header \o print_info \o print_status \o print_footer,
              LAMBDA k : k.fn = "writeline")
BannerRows == <<0, 1, 2, 3, 5, 6, 7, 9, 10, 11, 13, 14, 15>>
BannerAttrs ==
    << VGA_YELLOW, VGA_LIGHT_CYAN, VGA_LIGHT_CYAN, VGA_YELLOW,
       VGA_WHITE, VGA_WHITE, VGA_WHITE,
       VGA_LIGHT_GREEN, VGA_LIGHT_GREEN, VGA_LIGHT_GREEN,
       VGA_YELLOW, VGA_LIGHT_MAGENTA, VGA_YELLOW >>

\* Row y shows the text of str from column 0, every cell with attribute a
RowShows(y, str, a) ==
    \A x \in 0 .. CharsBeforeNul(str) - 1 :
        /\ CellChar(CellAt(terminal_buffer, x, y)) = ToU8(str[x + 1])
        /\ CellAttr(CellAt(terminal_buffer, x, y)) = a

\* Row y is blank: every cell is (space, light cyan on black)
RowBlank(y) ==
    \A x \in 0 .. VGA_WIDTH - 1 :
        CellAt(terminal_buffer, x, y) = SPACE + 256 * VGA_LIGHT_CYAN

\* C11: in the halt loop the grid shows the banner lines in source order,
\* one per row from column 0, each cell with the attribute set for its line:
\* rows 0, 3, 13, 15 the separator of 79 '=' in yellow on black, rows 1-2
\* the title in light cyan, rows 5-7 the info lines in white, rows 9-11 the
\* status lines in light green, row 14 the footer line in light magenta;
\* rows 4, 8, 12 and 16..24 are blank with the default attribute, and the
\* cursor is at column 0 of row 16.
C11_BannerOnGrid ==
    pc = "halt"
    => /\ Len(BannerLines) = Len(BannerRows)
       /\ \A n \in 1 .. Len(BannerRows) :
             RowShows(BannerRows[n], BannerLines[n].data, BannerAttrs[n])
       /\ \A y \in {0, 3, 13, 15} : RowShows(y, Str(Rep(61, 79)), VGA_YELLOW)
       /\ \A y \in {4, 8, 12} \cup (16 .. VGA_HEIGHT - 1) : RowBlank(y)
       /\ terminal_column = 0
       /\ terminal_row = 16

\* The halt loop is reached with the magenta footer line on row 14 and
\* the white info line on row 5
C11_Witness ==
    /\ pc = "halt"
    /\ CellAt(terminal_buffer, 2, 14) = 76 + 256 * VGA_LIGHT_MAGENTA
    /\ CellAt(terminal_buffer, 2, 5) = 83 + 256 * VGA_WHITE
    /\ CellAt(terminal_buffer, 0, 16) = SPACE + 256 * VGA_LIGHT_CYAN

\* The step runs terminal_setcolor
SetcolorStep == ev'.n = ev.n + 1 /\ ev'.fn = "setcolor"

\* The linear index of the cell at the cursor
CursorIndex == terminal_row * VGA_WIDTH + terminal_column

\* C12: terminal_setcolor(a) sets the current attribute to a and leaves the
\* cursor row, the cursor column and every cell unchanged, so cells written
\* earlier keep their attribute; a later terminal_putchar of a character
\* stores it with the current attribute, and no terminal_putchar changes
\* the attribute.
C12_SetColorFrame ==
    [][/\ SetcolorStep
            => /\ terminal_color' = ev'.c
               /\ UNCHANGED <<terminal_row, terminal_column, terminal_buffer>>
       /\ (PutcharStep /\ ev'.c # NEWLINE)
            => CellAttr(terminal_buffer'[CursorIndex]) = terminal_color
       /\ PutcharStep => terminal_color' = terminal_color]_vars

\* terminal_setcolor(white on red) and then terminal_putchar('A') at the end
\* of a row of letters written with the default attribute: the new cell is
\* white on red, the cell before it is still light cyan on black
C12_Witness ==
    /\ Len(hist) >= 2
    /\ hist[Len(hist) - 1] = SetColor(vga_entry_color(VGA_WHITE, VGA_RED))
    /\ Last = PutChar(65)
    /\ pre.column = VGA_WIDTH - 1
    /\ CellAt(terminal_buffer, VGA_WIDTH - 1, pre.row) = 65 + 256 * 79
    /\ CellAt(terminal_buffer, VGA_WIDTH - 2, pre.row) = 65 + 256 * VGA_LIGHT_CYAN

\* C13: terminal_putchar(c) with c not '\n', at cursor (x, y), stores
\* exactly one cell: cell (x, y) becomes (c, current attribute) and every
\* other cell is unchanged; the column becomes x + 1 if x + 1 < VGA_WIDTH,
\* otherwise the column becomes 0 and the row (y + 1) mod VGA_HEIGHT; the
\* current attribute is unchanged.
C13_PutcharCharacter ==
    [][(PutcharStep /\ ev'.c # NEWLINE)
          => /\ Len(stores') = 1
             /\ stores'[1] = <<terminal_column, terminal_row, CursorIndex>>
             /\ ChangedOnlyAt(CursorIndex)
             /\ terminal_buffer'[CursorIndex] = ToU8(ev'.c) + 256 * terminal_color
             /\ IF terminal_column + 1 < VGA_WIDTH
                THEN /\ terminal_column' = terminal_column + 1
                     /\ terminal_row' = terminal_row
                ELSE /\ terminal_column' = 0
                     /\ terminal_row' = (terminal_row + 1) % VGA_HEIGHT
             /\ terminal_color' = terminal_color]_vars

\* A letter was put in the last cell of the grid: the cell holds it with
\* the default attribute and the cursor is back at (0, 0)
C13_Witness ==
    /\ ev.fn = "putchar" /\ ev.c = 65
    /\ Last = PutChar(65)
    /\ pre.row = VGA_HEIGHT - 1 /\ pre.column = VGA_WIDTH - 1
    /\ terminal_buffer[LastCell] = 65 + 256 * VGA_LIGHT_CYAN
    /\ stores = << <<VGA_WIDTH - 1, VGA_HEIGHT - 1, LastCell>> >>
    /\ terminal_row = 0 /\ terminal_column = 0

\* C14: terminal_write(data, n) is exactly n applications of
\* terminal_putchar, to data[0], ..., data[n-1] in that order: it starts
\* from the state at the call, each iteration is one terminal_putchar of
\* byte i applied to the state the iteration before left (a newline is put
\* as a newline at its position), the step that finds i = n puts nothing,
\* and the state then is terminal_putchar folded over the first n bytes.
C14_WriteIsFold ==
    /\ [](pc = "write" => frame.i \in 0 .. frame.size)
    /\ []((pc = "write" /\ frame.i = 0) => Snapshot(State) = pre)
    /\ [](WriteDone
            => Snapshot(State)
                 = Snapshot(PutChars(PreState, frame.data, frame.size)))
    /\ [][pc = "write"
            => IF frame.i < frame.size
               THEN /\ PutcharStep
                    /\ ev'.c = frame.data[frame.i + 1]
                    /\ frame'.i = frame.i + 1
                    /\ Snapshot(State')
                         = Snapshot(terminal_putchar(State, ev'.c))
               ELSE /\ ev' = ev
                    /\ TerminalUnchanged]_vars

\* terminal_write of a byte above 127, a newline and 'B', 3 bytes, from the
\* start of row 0, has put all three: 'B' is at the start of row 1
C14_Witness ==
    /\ WriteDone
    /\ frame.size = 3
    /\ frame.data[2] = NEWLINE
    /\ pre.row = 0 /\ pre.column = 0
    /\ CellChar(CellAt(terminal_buffer, 0, 0)) = 200
    /\ CellChar(CellAt(terminal_buffer, 0, 1)) = 66
    /\ terminal_row = 1 /\ terminal_column = 1

\* v is a byte whose low nibble is lo and whose high nibble is hi
NibblesOf(v, lo, hi) ==
    /\ v \in 0 .. 255
    /\ v % 16 = lo
    /\ v \div 16 = hi
    /\ lo \in 0 .. 15
    /\ hi \in 0 .. 15

\* Every attribute kernel_main passes to terminal_setcolor is a byte of two
\* nibbles
BootAttributesInRange ==
    \A k \in 1 .. Len(kernel_main) :
        kernel_main[k].fn = "setcolor"
           => NibblesOf(kernel_main[k].c, kernel_main[k].c % 16, kernel_main[k].c \div 16)

\* The two encoding functions on all their arguments
EncodingTable ==
    /\ \A fg \in 0 .. 15, bg \in 0 .. 15 :
          /\ vga_entry_color(fg, bg) = fg + 16 * bg
          /\ NibblesOf(vga_entry_color(fg, bg), fg, bg)
    /\ \A c \in 0 .. 255, a \in 0 .. 255 :
          /\ vga_entry(c, a) = c + 256 * a
          /\ vga_entry(c, a) \in 0 .. 65535
          /\ vga_entry(c, a) % 256 = c
          /\ vga_entry(c, a) \div 256 = a

\* C15: for fg, bg in 0..15, vga_entry_color(fg, bg) = fg + 16 * bg, a
\* value of 0..255 with low nibble fg and high nibble bg, and it is the
\* attribute terminal_setcolor makes current; for a character code c in
\* 0..255 and an attribute a in 0..255 the cell stored, vga_entry(c, a), is
\* c + 256 * a, a value of 0..65535 with low byte c and high byte a.  Every
\* attribute kernel_main sets has both nibbles in 0..15.
C15_Encoding ==
    /\ (Len(hist) >= 2 /\ hist[2].fn = "setcolor")
          => LET fg == hist[2].data[1]
                 bg == hist[2].data[2]
                 a == hist[2].c
             IN  /\ a = fg + 16 * bg
                 /\ NibblesOf(a, fg, bg)
                 /\ ev.fn = "setcolor" => terminal_color = a
    /\ (ev.fn = "putchar" /\ ev.c # NEWLINE)
          => LET c == IF ev.c < 0 THEN ev.c + 256 ELSE ev.c
                 a == pre.color
                 v == CellAt(terminal_buffer, pre.column, pre.row)
             IN  /\ c \in 0 .. 255
                 /\ a \in 0 .. 255
                 /\ v = c + 256 * a
                 /\ v \in 0 .. 65535
                 /\ v % 256 = c
                 /\ v \div 256 = a
    /\ EncodingTable
    /\ BootAttributesInRange

\* White on red was made the current attribute and the byte 0xF7 was stored
\* with it
C15_Witness ==
    /\ Len(hist) = 3
    /\ hist[2] = SetColorOf(VGA_WHITE, VGA_RED)
    /\ hist[3] = PutChar(-9)
    /\ terminal_buffer[0] = 247 + 256 * 79

\* The step runs terminal_initialize
InitializeStep == ev'.n = ev.n + 1 /\ ev'.fn = "initialize"

\* C16: during kernel_main the cursor row never decreases and never wraps
\* from VGA_HEIGHT - 1 to 0; no character is put in the last column, so no
\* line reaches column VGA_WIDTH and the row advances on newlines only;
\* the grid is cleared once, by the first step, and after it no cell is
\* written more than once: every store goes to the cell at the cursor and
\* the cursor's linear position row * VGA_WIDTH + column increases with
\* every terminal_putchar, so each store is beyond all earlier ones.
C16_OneScreen ==
    [][/\ terminal_row' >= terminal_row
       /\ ~(terminal_row = VGA_HEIGHT - 1 /\ terminal_row' = 0)
       /\ (PutcharStep /\ ev'.c # NEWLINE)
            => /\ terminal_column + 1 < VGA_WIDTH
               /\ terminal_column' = terminal_column + 1
               /\ terminal_row' = terminal_row
               /\ stores' = << <<terminal_column, terminal_row, CursorIndex>> >>
       /\ PutcharStep
            => terminal_row' * VGA_WIDTH + terminal_column' > CursorIndex
       /\ InitializeStep => ev.n = 0
       /\ terminal_buffer' # terminal_buffer
            => \/ InitializeStep
               \/ PutcharStep /\ ev'.c # NEWLINE /\ ChangedOnlyAt(CursorIndex)]_vars

\* kernel_main has made its last terminal_putchar, the newline after the
\* last separator, and is in the halt loop with the cursor on row 16
C16_Witness ==
    /\ pc = "halt"
    /\ ev.fn = "putchar" /\ ev.c = NEWLINE
    /\ pre.row = 15 /\ pre.column = 0
    /\ terminal_row = 16
    /\ ev.n > VGA_WIDTH * 6

\* The number of terminal_putchar calls made after terminal_initialize, and
\* the k-th character put, k counted from 0
PutCount == Len(hist) - 1
PutByte(k) == hist[k + 2].c

\* The last character stored at linear index i: the largest k below PutCount
\* with k mod (VGA_WIDTH * VGA_HEIGHT) = i
LastPutAt(i) == i + VGA_CELLS * ((PutCount - 1 - i) \div VGA_CELLS)

\* C17: the grid is one ring of VGA_WIDTH * VGA_HEIGHT cells.  After
\* terminal_initialize and n terminal_putchar calls of characters other than
\* '\n' the cursor's linear position row * VGA_WIDTH + column is n mod
\* (VGA_WIDTH * VGA_HEIGHT); the k-th character (k from 0) is stored at
\* linear index k mod (VGA_WIDTH * VGA_HEIGHT) and changes no other cell, so
\* character number VGA_WIDTH * VGA_HEIGHT overwrites cell (0, 0) and
\* nothing is cleared: each cell holds the last character stored in it, or
\* the blank of terminal_initialize if none was.
C17_Ring ==
    /\ [](/\ hist[1] = Initialize
          /\ \A k \in 0 .. PutCount - 1 :
                hist[k + 2].fn = "putchar" /\ PutByte(k) # NEWLINE
          /\ CursorIndex = PutCount % VGA_CELLS
          /\ \A i \in 0 .. VGA_CELLS - 1 :
                terminal_buffer[i] =
                    IF i >= PutCount
                    THEN SPACE + 256 * VGA_LIGHT_CYAN
                    ELSE PutByte(LastPutAt(i)) + 256 * VGA_LIGHT_CYAN)
    /\ [][PutcharStep
             => /\ stores' = << <<PutCount % VGA_WIDTH,
                                  (PutCount \div VGA_WIDTH) % VGA_HEIGHT,
                                  PutCount % VGA_CELLS>> >>
                /\ ChangedOnlyAt(PutCount % VGA_CELLS)
                /\ CellChar(terminal_buffer'[PutCount % VGA_CELLS]) = ev'.c]_vars

\* Character number VGA_WIDTH * VGA_HEIGHT was put: it is in cell (0, 0),
\* where 'A' was, character number 1 is still in cell (1, 0), and the
\* cursor is at (1, 0)
C17_Witness ==
    /\ PutCount = VGA_CELLS + 1
    /\ ev.c = 97
    /\ terminal_buffer[0] = 97 + 256 * VGA_LIGHT_CYAN
    /\ terminal_buffer[1] = 66 + 256 * VGA_LIGHT_CYAN
    /\ terminal_buffer[VGA_CELLS - 1] = PutByte(VGA_CELLS - 1) + 256 * VGA_LIGHT_CYAN
    /\ terminal_row = 0 /\ terminal_column = 1
    /\ nops = 1

\* Row y of the grid is as it was when the last call began
RowUntouched(y) ==
    \A x \in 0 .. VGA_WIDTH - 1 :
        CellAt(terminal_buffer, x, y) = CellAt(pre.buffer, x, y)

\* C18: the automatic wrap and the newline of terminal_writeline are not
\* merged.  terminal_writeline(s), s without '\n', called at column 0 of row
\* r: if s has exactly VGA_WIDTH characters the cursor ends at column 0 of
\* row (r + 2) mod VGA_HEIGHT and row (r + 1) mod VGA_HEIGHT is untouched;
\* if s has fewer than VGA_WIDTH characters the cursor ends at column 0 of
\* row (r + 1) mod VGA_HEIGHT.
C18_WrapThenNewline ==
    (/\ pc = "idle"
     /\ Last.fn = "writeline"
     /\ pre.column = 0
     /\ \A k \in 1 .. CharsBeforeNul(Last.data) : Last.data[k] # NEWLINE)
    => LET L == CharsBeforeNul(Last.data)
           r == pre.row
       IN  /\ L = VGA_WIDTH
              => /\ terminal_column = 0
                 /\ terminal_row = (r + 2) % VGA_HEIGHT
                 /\ RowUntouched((r + 1) % VGA_HEIGHT)
           /\ L < VGA_WIDTH
              => /\ terminal_column = 0
                 /\ terminal_row = (r + 1) % VGA_HEIGHT

\* terminal_writeline of VGA_WIDTH letters has returned after starting at
\* column 0 of the last row: the row is full, row 0 is skipped and the
\* cursor is on row 1
C18_Witness ==
    /\ pc = "idle"
    /\ Last = WriteLine(StrLong)
    /\ pre.column = 0 /\ pre.row = VGA_HEIGHT - 1
    /\ CellChar(terminal_buffer[LastCell]) = 65
    /\ CellAt(terminal_buffer, 0, 0) = SPACE + 256 * VGA_LIGHT_CYAN
    /\ terminal_column = 0 /\ terminal_row = 1

\* The cursor, the colour and the grid after the first terminal_initialize
FirstInitialized ==
    [row    |-> 0,
     column |-> 0,
     color  |-> VGA_LIGHT_CYAN,
     buffer |-> [k \in 0 .. VGA_CELLS - 1 |-> SPACE + 256 * VGA_LIGHT_CYAN]]

\* C19: terminal_initialize is a full reset.  Called after any calls, a
\* terminal_setcolor of another attribute and writes that wrapped included,
\* it leaves the state of the first initialisation: cursor (0, 0), current
\* attribute light cyan on black whatever was set before, every cell (space,
\* light cyan on black); and called twice in a row it leaves the state the
\* first of the two calls left.
C19_FullReset ==
    /\ (pc = "idle" /\ Last = Initialize)
          => Snapshot(State) = FirstInitialized
    /\ (/\ pc = "idle"
        /\ Len(hist) >= 2
        /\ Last = Initialize
        /\ hist[Len(hist) - 1] = Initialize)
          => /\ pre = FirstInitialized
             /\ Snapshot(State) = pre

\* terminal_initialize was called after terminal_setcolor(white on red),
\* with a letter in row 0 and letters in the last row, the cursor in the
\* last cell: the attribute is light cyan on black again
C19_Witness ==
    /\ pc = "idle"
    /\ Len(hist) >= 3
    /\ Last = Initialize
    /\ hist[Len(hist) - 1] = SetColor(vga_entry_color(VGA_WHITE, VGA_RED))
    /\ pre.color = 79
    /\ pre.row = VGA_HEIGHT - 1 /\ pre.column = VGA_WIDTH - 1
    /\ CellChar(pre.buffer[0]) = 66
    /\ terminal_color = VGA_LIGHT_CYAN
    /\ terminal_buffer[0] = SPACE + 256 * VGA_LIGHT_CYAN
    /\ terminal_row = 0 /\ terminal_column = 0

\* States of a second run that is at the same cursor position with other
\* grid contents and another current attribute
OtherGrids == {[k \in 0 .. VGA_CELLS - 1 |-> g] : g \in {0, 65535}}
OtherRuns ==
    {[State EXCEPT !.buffer = grid, !.color = a] :
        grid \in OtherGrids, a \in {0, 79, 255}}

\* C20: nothing is read back from the surface.  Two runs that are at the
\* same cursor position and differ in the grid contents and in the current
\* attribute are at the same cursor position again after a terminal_putchar
\* of the same byte, and the call stores at the same cell position in both
\* (or in neither); terminal_setcolor moves no cursor and stores nothing.
\* So two runs given the same bytes from the same cursor position have equal
\* cursors after every step and write the same set of cell positions,
\* whatever the initial grids and the terminal_setcolor calls in between.
C20_NoReadBack ==
    [][/\ PutcharStep
            => \A other \in OtherRuns :
                  LET after == terminal_putchar(other, ev'.c)
                  IN  /\ after.row = terminal_row'
                      /\ after.column = terminal_column'
                      /\ after.stores = stores'
       /\ SetcolorStep
            => /\ UNCHANGED <<terminal_row, terminal_column>>
               /\ stores' = <<>>]_vars

\* After terminal_setcolor(white on red), terminal_write("AB") from the last
\* cell of the grid has put 'B' over the 'B' that was in cell (0, 0) with
\* another attribute
C20_Witness ==
    /\ WriteDone
    /\ Len(hist) >= 2
    /\ hist[Len(hist) - 1] = SetColor(vga_entry_color(VGA_WHITE, VGA_RED))
    /\ Last = Write(<<65, 66, NUL>>, 2)
    /\ pre.buffer[0] = 66 + 256 * VGA_LIGHT_CYAN
    /\ terminal_buffer[0] = 66 + 256 * 79
    /\ terminal_row = 0 /\ terminal_column = 1

====
